---------------------------- MODULE Spec2Model ----------------------------
(***************************************************************************)
(* VisionCut (src/src/App.js): the editing session of the App component.   *)
(*                                                                         *)
(* The state is the component's React state (imgSrc, crop, completedCrop,  *)
(* aspect, isProcessing, adj), the <img> element behind imgRef, the file   *)
(* reads and background-removal calls in flight, and the position of a     *)
(* running export.  JavaScript numbers are modelled as exact rationals     *)
(* <<numerator, denominator>>; <<0, 0>> stands for NaN.                    *)
(***************************************************************************)
EXTENDS Integers, Sequences, FiniteSets, TLC

VARIABLES imgSrc, crop, completedCrop, aspect, isProcessing, adj,
          imgEl, readers, pending, alerts, exp

vars == <<imgSrc, crop, completedCrop, aspect, isProcessing, adj,
          imgEl, readers, pending, alerts, exp>>

(***************************************************************************)
(* Bounds of the model                                                     *)
(***************************************************************************)
\* number of distinct files the user can pick
MaxFiles == 2
\* number of alert() dialogs a behaviour may raise
MaxAlerts == 1

(***************************************************************************)
(* JavaScript number arithmetic, as exact rationals                        *)
(***************************************************************************)
Abs(n) == IF n < 0 THEN -n ELSE n

RECURSIVE GCD(_, _)
GCD(a, b) == IF b = 0 THEN a ELSE GCD(b, a % b)

NaN == <<0, 0>>

\* n/d in lowest terms with a positive denominator; n/0 is NaN
Norm(n, d) ==
    IF d = 0 THEN NaN
    ELSE LET g == GCD(Abs(n), Abs(d))
             s == IF d < 0 THEN -1 ELSE 1
         IN  <<(s * n) \div g, (s * d) \div g>>

R(n) == <<n, 1>>
IsNaN(a) == a[2] = 0
RMul(a, b) == Norm(a[1] * b[1], a[2] * b[2])
RDiv(a, b) == Norm(a[1] * b[2], a[2] * b[1])
RAdd(a, b) == Norm(a[1] * b[2] + b[1] * a[2], a[2] * b[2])
RSub(a, b) == Norm(a[1] * b[2] - b[1] * a[2], a[2] * b[2])
\* a > b; every comparison with NaN is false
RGt(a, b) == ~IsNaN(a) /\ ~IsNaN(b) /\ a[1] * b[2] > b[1] * a[2]
\* Math.ceil in place of Math.floor
Floor_ceil(a) == IF a[2] = 0 THEN 0 ELSE -((-a[1]) \div a[2])

\* Math.floor, as an integer; a canvas dimension set to NaN becomes 0
Floor(a) == IF IsNaN(a) THEN 0 ELSE a[1] \div a[2]
(***************************************************************************)
(* Images                                                                  *)
(***************************************************************************)
Files == 1 .. MaxFiles

\* imgSrc = "": no image
NoImg == [file |-> 0, cut |-> FALSE]
\* the data URL of file f
DataUrl(f) == [file |-> f, cut |-> FALSE]
\* the object URL of the blob removeBackground resolves with for image i
CutUrl(i) == [file |-> i.file, cut |-> TRUE]

\* the decoded size of file f
NaturalSize(f) ==
    IF f = 1 THEN [w |-> 4000, h |-> 3000] ELSE [w |-> 300, h |-> 200]

\* the sizes the layout may render an image of natural size n at
DisplayedSizes(n) ==
    IF n.w = 4000 THEN {[w |-> 800, h |-> 600]} ELSE {[w |-> 600, h |-> 400]}

\* the <img> element before its first image is available
EmptyImg == [shown |-> NoImg, naturalWidth |-> 0, naturalHeight |-> 0,
             width |-> 0, height |-> 0]


(***************************************************************************)
(* Crop rectangles and the react-image-crop helpers App.js calls           *)
(***************************************************************************)
\* completedCrop / crop before any crop exists (undefined, null)
NoCrop == [unit |-> "none", x |-> R(0), y |-> R(0), width |-> R(0), height |-> R(0)]

PxCrop(x, y, w, h) ==
    [unit |-> "px", x |-> R(x), y |-> R(y), width |-> R(w), height |-> R(h)]

convertToPixelCrop(c, W, H) ==
    IF c.unit = "px" THEN c
    ELSE [unit |-> "px",
          x |-> RDiv(RMul(c.x, R(W)), R(100)),
          y |-> RDiv(RMul(c.y, R(H)), R(100)),
          width |-> RDiv(RMul(c.width, R(W)), R(100)),
          height |-> RDiv(RMul(c.height, R(H)), R(100))]

convertToPercentCrop(c, W, H) ==
    IF c.unit = "%" THEN c
    ELSE [unit |-> "%",
          x |-> RMul(RDiv(c.x, R(W)), R(100)),
          y |-> RMul(RDiv(c.y, R(H)), R(100)),
          width |-> RMul(RDiv(c.width, R(W)), R(100)),
          height |-> RMul(RDiv(c.height, R(H)), R(100))]

\* makeAspectCrop({ unit: "%", width: pct }, asp, W, H)
makeAspectCrop(pct, asp, W, H) ==
    LET c0 == convertToPixelCrop(
                  [unit |-> "%", x |-> R(0), y |-> R(0),
                   width |-> R(pct), height |-> R(0)], W, H)
        c1 == [c0 EXCEPT !.height = RDiv(c0.width, asp)]
        c2 == IF RGt(RAdd(c1.y, c1.height), R(H))
              THEN [c1 EXCEPT !.height = RSub(R(H), c1.y),
                              !.width = RMul(RSub(R(H), c1.y), asp)]
              ELSE c1
        c3 == IF RGt(RAdd(c2.x, c2.width), R(W))
              THEN [c2 EXCEPT !.width = RSub(R(W), c2.x),
                              !.height = RDiv(RSub(R(W), c2.x), asp)]
              ELSE c2
    IN  convertToPercentCrop(c3, W, H)

\* centerCrop(c, W, H): c keeps its unit
centerCrop(c, W, H) ==
    LET p == convertToPixelCrop(c, W, H)
        q == [p EXCEPT !.x = RDiv(RSub(R(W), p.width), R(2)),
                       !.y = RDiv(RSub(R(H), p.height), R(2))]
    IN  IF c.unit = "%" THEN convertToPercentCrop(q, W, H) ELSE q

\* the aspect presets of the ratio buttons
Aspects == {<<16, 9>>, <<1, 1>>, <<9, 16>>}

\* the rectangles a drag of the crop widget reports, in displayed pixels:
\* a large selection, a selection of a few pixels, and the empty selection a
\* click without a drag leaves
DragCrops == {PxCrop(100, 100, 200, 150), PxCrop(10, 10, 3, 1), PxCrop(50, 50, 0, 0)}

(***************************************************************************)
(* Adjustments                                                             *)
(***************************************************************************)
AdjKeys == {"brightness", "contrast", "saturation", "temperature", "vignette"}

DEFAULT_ADJ == [brightness |-> 100, contrast |-> 100, saturation |-> 100,
                temperature |-> 0, vignette |-> 0]

\* the range inputs' attributes
SliderMax == 200
TemperatureMin == -100
SliderMin(key) == IF key = "temperature" THEN TemperatureMin ELSE 0

\* the positions of a slider the model drags it to: both ends of its range,
\* its default and one position on either side of the default
SliderStops(key) ==
    {v \in {SliderMin(key), DEFAULT_ADJ[key] - 40, DEFAULT_ADJ[key],
            DEFAULT_ADJ[key] + 60, SliderMax} : SliderMin(key) <= v /\ v <= SliderMax}

\* a filter whose cool branch lacks the 1.5 factor
FilterStack_plainHue(a) ==
    << [fn |-> "brightness", arg |-> R(a.brightness)],
       [fn |-> "contrast", arg |-> R(a.contrast)],
       [fn |-> "saturate", arg |-> R(a.saturation)],
       [fn |-> "sepia", arg |-> IF a.temperature > 0 THEN R(a.temperature) ELSE R(0)],
       [fn |-> "hue-rotate", arg |-> IF a.temperature < 0 THEN R(a.temperature) ELSE R(0)] >>

\* the filter expression, as the list of its functions and their arguments
FilterStack(a) ==
    LET sepia == IF a.temperature > 0 THEN R(a.temperature) ELSE R(0)
        hue == IF a.temperature < 0 THEN RMul(R(a.temperature), <<3, 2>>) ELSE R(0)
    IN  << [fn |-> "brightness", arg |-> R(a.brightness)],
           [fn |-> "contrast", arg |-> R(a.contrast)],
           [fn |-> "saturate", arg |-> R(a.saturation)],
           [fn |-> "sepia", arg |-> sepia],
           [fn |-> "hue-rotate", arg |-> hue] >>

\* the style.filter of the preview <img>
PreviewFilter(a) ==
    << [fn |-> "brightness", arg |-> R(a.brightness)],
       [fn |-> "contrast", arg |-> R(a.contrast)],
       [fn |-> "saturate", arg |-> R(a.saturation)],
       [fn |-> "sepia", arg |-> IF a.temperature > 0 THEN R(a.temperature) ELSE R(0)],
       [fn |-> "hue-rotate",
        arg |-> IF a.temperature < 0 THEN RMul(R(a.temperature), <<3, 2>>) ELSE R(0)] >>

(***************************************************************************)
(* The initial state: the component as first rendered (also the state a    *)
(* click on the logo, which reloads the page, returns to)                  *)
(***************************************************************************)
\* no export running
NoExport == [pc |-> "idle", sourceX |-> R(0), sourceY |-> R(0),
             sourceWidth |-> R(0), sourceHeight |-> R(0),
             canvasWidth |-> 0, canvasHeight |-> 0, filter |-> <<>>,
             threw |-> FALSE, caught |-> FALSE, logged |-> FALSE,
             vignetted |-> FALSE, encoding |-> FALSE, downloaded |-> FALSE]

Init ==
    /\ imgSrc = NoImg
    /\ crop = NoCrop
    /\ completedCrop = NoCrop
    /\ aspect = <<16, 9>>
    /\ isProcessing = FALSE
    /\ adj = DEFAULT_ADJ
    /\ imgEl = EmptyImg
    /\ readers = {}
    /\ pending = <<>>
    /\ alerts = 0
    /\ exp = NoExport

\* no handler runs while the synchronous export is between its steps
Idle == exp.pc = "idle"

(***************************************************************************)
(* File selection                                                          *)
(***************************************************************************)
\* onSelectFile: the chosen file, if any (f = 0: the dialog was cancelled),
\* is handed to a FileReader
onSelectFile(f) ==
    /\ Idle
    /\ IF f \in Files
       THEN readers' = readers \cup {f}
       ELSE readers' = readers
    /\ UNCHANGED <<imgSrc, crop, completedCrop, aspect, isProcessing, adj,
                   imgEl, pending, alerts, exp>>

\* reader.onload of the FileReader reading file f
readerOnload(f) ==
    /\ Idle
    /\ f \in readers
    /\ readers' = readers \ {f}
    /\ imgSrc' = DataUrl(f)
    /\ adj' = DEFAULT_ADJ
    /\ completedCrop' = NoCrop
    /\ UNCHANGED <<crop, aspect, isProcessing, imgEl, pending, alerts, exp>>

\* the crop onImageLoad computes for an image displayed at W x H
InitialCrop(asp, W, H) == centerCrop(makeAspectCrop(100, asp, W, H), W, H)

\* the <img> finishes loading the image imgSrc names, is laid out at one of
\* the sizes the layout allows, and its load event runs onImageLoad
onImageLoad ==
    /\ Idle
    /\ imgSrc # NoImg
    /\ imgEl.shown # imgSrc
    /\ \E d \in DisplayedSizes(NaturalSize(imgSrc.file)) :
          /\ imgEl' = [shown |-> imgSrc,
                       naturalWidth |-> NaturalSize(imgSrc.file).w,
                       naturalHeight |-> NaturalSize(imgSrc.file).h,
                       width |-> d.w, height |-> d.h]
          /\ crop' = InitialCrop(aspect, d.w, d.h)
          /\ completedCrop' = InitialCrop(aspect, d.w, d.h)
    /\ UNCHANGED <<imgSrc, aspect, isProcessing, adj, readers, pending, alerts, exp>>

(***************************************************************************)
(* Background removal                                                      *)
(***************************************************************************)
\* a button that is never disabled
RemoveDisabled_never == FALSE

\* the disabled attribute of the Remove Background button
RemoveDisabled == isProcessing

\* a click on Remove Background: handleRemoveBG up to its await
handleRemoveBG ==
    /\ Idle
    /\ imgSrc # NoImg
    /\ ~RemoveDisabled
    /\ isProcessing' = TRUE
    /\ pending' = Append(pending, imgSrc)
    /\ UNCHANGED <<imgSrc, crop, completedCrop, aspect, adj, imgEl, readers,
                   alerts, exp>>

Remove(seq, i) == [j \in 1 .. (Len(seq) - 1) |-> IF j < i THEN seq[j] ELSE seq[j + 1]]

\* removeBackground resolves: the rest of the try block, then finally
removeBGResolved(i) ==
    /\ Idle
    /\ i \in 1 .. Len(pending)
    /\ imgSrc' = CutUrl(pending[i])
    /\ isProcessing' = FALSE
    /\ pending' = Remove(pending, i)
    /\ UNCHANGED <<crop, completedCrop, aspect, adj, imgEl, readers, alerts, exp>>

\* a failure handler that also drops the image
removeBGRejected_clears(i) ==
    /\ Idle
    /\ i \in 1 .. Len(pending)
    /\ alerts < MaxAlerts
    /\ alerts' = alerts + 1
    /\ isProcessing' = FALSE
    /\ pending' = Remove(pending, i)
    /\ imgSrc' = NoImg
    /\ UNCHANGED <<crop, completedCrop, aspect, adj, imgEl, readers, exp>>

\* removeBackground rejects: the catch block, then finally
removeBGRejected(i) ==
    /\ Idle
    /\ i \in 1 .. Len(pending)
    /\ alerts < MaxAlerts
    /\ alerts' = alerts + 1
    /\ isProcessing' = FALSE
    /\ pending' = Remove(pending, i)
    /\ UNCHANGED <<imgSrc, crop, completedCrop, aspect, adj, imgEl, readers, exp>>

(***************************************************************************)
(* Crop and tuning controls                                                *)
(***************************************************************************)
\* a click on a ratio button
handleAspectChange(newAspect) ==
    /\ Idle
    /\ imgSrc # NoImg
    /\ aspect' = newAspect
    /\ crop' = centerCrop(makeAspectCrop(90, newAspect, imgEl.width, imgEl.height),
                          imgEl.width, imgEl.height)
    /\ completedCrop' = crop'
    /\ UNCHANGED <<imgSrc, isProcessing, adj, imgEl, readers, pending, alerts, exp>>

\* ReactCrop onChange: the widget reports the rectangle being dragged
onCropChange(c) ==
    /\ Idle
    /\ imgEl.shown # NoImg
    /\ crop' = c
    /\ UNCHANGED <<imgSrc, completedCrop, aspect, isProcessing, adj, imgEl,
                   readers, pending, alerts, exp>>

\* ReactCrop onComplete: on pointer release the widget reports its crop
\* in displayed pixels
onCropComplete ==
    /\ Idle
    /\ imgEl.shown # NoImg
    /\ crop # NoCrop
    /\ completedCrop' = convertToPixelCrop(crop, imgEl.width, imgEl.height)
    /\ UNCHANGED <<imgSrc, crop, aspect, isProcessing, adj, imgEl, readers,
                   pending, alerts, exp>>

\* onChange of the range input of key, moved to value v
onSliderChange(key, v) ==
    /\ Idle
    /\ imgSrc # NoImg
    /\ adj' = [adj EXCEPT ![key] = v]
    /\ UNCHANGED <<imgSrc, crop, completedCrop, aspect, isProcessing, imgEl,
                   readers, pending, alerts, exp>>

\* a click on Default
onResetAdj ==
    /\ Idle
    /\ imgSrc # NoImg
    /\ adj' = DEFAULT_ADJ
    /\ UNCHANGED <<imgSrc, crop, completedCrop, aspect, isProcessing, imgEl,
                   readers, pending, alerts, exp>>

(***************************************************************************)
(* Export                                                                  *)
(***************************************************************************)
\* a validity test that forgets the width and height
IsCropValid_unitOnly(c) == c.unit # "none"

IsCropValid(c) == c.unit # "none" /\ RGt(c.width, R(0)) /\ RGt(c.height, R(0))

\* ctx.filter = "none"
NoneFilter == << [fn |-> "none", arg |-> R(0)] >>

\* a click on Download PNG: handleExport up to the try block.  The region
\* is resolved, the canvas is sized and the filter is set.
handleExport ==
    /\ Idle
    /\ imgSrc # NoImg
    /\ LET scaleX == RDiv(R(imgEl.naturalWidth), R(imgEl.width))
           scaleY == RDiv(R(imgEl.naturalHeight), R(imgEl.height))
           isCropValid == IsCropValid(completedCrop)
           sourceX == IF isCropValid THEN RMul(completedCrop.x, scaleX) ELSE R(0)
           sourceY == IF isCropValid THEN RMul(completedCrop.y, scaleY) ELSE R(0)
           sourceWidth == IF isCropValid THEN RMul(completedCrop.width, scaleX)
                          ELSE R(imgEl.naturalWidth)
           sourceHeight == IF isCropValid THEN RMul(completedCrop.height, scaleY)
                           ELSE R(imgEl.naturalHeight)
       IN  exp' = [NoExport EXCEPT !.pc = "draw",
                                   !.sourceX = sourceX, !.sourceY = sourceY,
                                   !.sourceWidth = sourceWidth,
                                   !.sourceHeight = sourceHeight,
                                   !.canvasWidth = Floor(sourceWidth),
                                   !.canvasHeight = Floor(sourceHeight),
                                   !.filter = FilterStack(adj)]
    /\ UNCHANGED <<imgSrc, crop, completedCrop, aspect, isProcessing, adj,
                   imgEl, readers, pending, alerts>>

\* the try block when ctx.drawImage returns: the vignette is painted with
\* the filter cleared, and canvas.toBlob is called
drawImageReturns ==
    /\ exp.pc = "draw"
    /\ exp' = [exp EXCEPT !.pc = "encode",
                          !.encoding = TRUE,
                          !.vignetted = (adj.vignette > 0),
                          !.filter = IF adj.vignette > 0 THEN NoneFilter ELSE @]
    /\ UNCHANGED <<imgSrc, crop, completedCrop, aspect, isProcessing, adj,
                   imgEl, readers, pending, alerts>>

\* a draw failure that does not stop the export: toBlob is still called
drawImageThrows_uncaught ==
    /\ exp.pc = "draw"
    /\ exp' = [exp EXCEPT !.pc = "encode", !.threw = TRUE, !.encoding = TRUE]
    /\ UNCHANGED <<imgSrc, crop, completedCrop, aspect, isProcessing, adj,
                   imgEl, readers, pending, alerts>>

\* the try block when ctx.drawImage throws: the catch block logs
\* "Export failed:" and handleExport returns
drawImageThrows ==
    /\ exp.pc = "draw"
    /\ exp' = [exp EXCEPT !.pc = "done", !.threw = TRUE, !.caught = TRUE,
                          !.logged = TRUE]
    /\ UNCHANGED <<imgSrc, crop, completedCrop, aspect, isProcessing, adj,
                   imgEl, readers, pending, alerts>>

\* the callback of canvas.toBlob: a canvas with no pixels encodes to null,
\* and so may any canvas whose encoding fails; a blob is downloaded
toBlobCallback(blob) ==
    /\ exp.pc = "encode"
    /\ (exp.canvasWidth = 0 \/ exp.canvasHeight = 0) => ~blob
    /\ exp' = [exp EXCEPT !.pc = "done", !.downloaded = blob]
    /\ UNCHANGED <<imgSrc, crop, completedCrop, aspect, isProcessing, adj,
                   imgEl, readers, pending, alerts>>

\* the export is over
exportDone ==
    /\ exp.pc = "done"
    /\ exp' = NoExport
    /\ UNCHANGED <<imgSrc, crop, completedCrop, aspect, isProcessing, adj,
                   imgEl, readers, pending, alerts>>

(***************************************************************************)
(* The editing session: files, background removal, crops and export, with  *)
(* the tuning controls left at their defaults                              *)
(***************************************************************************)
Next ==
    \/ \E f \in Files \cup {0} : onSelectFile(f)
    \/ \E f \in Files : readerOnload(f)
    \/ onImageLoad
    \/ handleRemoveBG
    \/ \E i \in 1 .. Len(pending) : removeBGResolved(i)
    \/ \E i \in 1 .. Len(pending) : removeBGRejected(i)
    \/ \E a \in Aspects : handleAspectChange(a)
    \/ \E c \in DragCrops : onCropChange(c)
    \/ onCropComplete
    \/ handleExport
    \/ drawImageReturns
    \/ drawImageThrows
    \/ \E blob \in BOOLEAN : toBlobCallback(blob)
    \/ exportDone

Spec == Init /\ [][Next]_vars

(***************************************************************************)
(* The tuning session: one file, every slider                              *)
(***************************************************************************)
NextTune ==
    \/ onSelectFile(1)
    \/ readerOnload(1)
    \/ onImageLoad
    \/ \E key \in AdjKeys : \E v \in SliderStops(key) : onSliderChange(key, v)
    \/ onResetAdj
    \/ handleExport
    \/ drawImageReturns
    \/ drawImageThrows
    \/ \E blob \in BOOLEAN : toBlobCallback(blob)
    \/ exportDone

SpecTune == Init /\ [][NextTune]_vars

(***************************************************************************)
(* Properties                                                              *)
(***************************************************************************)
\* the editing state: image, crop, committed crop, adjustments
editing == <<imgSrc, crop, completedCrop, adj>>

Exporting == exp.pc # "idle"

\* the committed crop is absent, or its width or height is not above 0
CropAbsentOrEmpty ==
    \/ completedCrop.unit = "none"
    \/ completedCrop.width[2] = 0 \/ completedCrop.width[1] <= 0
    \/ completedCrop.height[2] = 0 \/ completedCrop.height[1] <= 0

\* region = c * natural / displayed, as an equation between integers
Scaled(region, c, natural, displayed) ==
    region[2] # 0 /\ region[1] * c[2] * displayed = c[1] * natural * region[2]

\* n is the largest integer not above the non-negative number a
IsFloorOf(n, a) == a[2] > 0 /\ n * a[2] <= a[1] /\ a[1] < (n + 1) * a[2]

\* C1: an export whose committed crop is absent or has width <= 0 or
\* height <= 0 resolves to the whole natural image, whatever its size, and
\* resolving it raises and reports nothing.
C1_InvalidCropExportsFullImage ==
    (Exporting /\ CropAbsentOrEmpty) =>
        /\ exp.sourceX = R(0)
        /\ exp.sourceY = R(0)
        /\ exp.sourceWidth = R(imgEl.naturalWidth)
        /\ exp.sourceHeight = R(imgEl.naturalHeight)
        /\ exp.canvasWidth = imgEl.naturalWidth
        /\ exp.canvasHeight = imgEl.naturalHeight
        /\ exp.pc = "draw" => (~exp.threw /\ ~exp.logged)
        /\ exp.logged => exp.threw

C1_Witness ==
    /\ exp.pc = "done" /\ exp.downloaded
    /\ completedCrop.unit = "px" /\ completedCrop.width = R(0)
    /\ exp.sourceWidth = R(4000) /\ exp.sourceHeight = R(3000)

\* C2: an export with a valid crop in displayed pixels resolves to the crop
\* multiplied by natural/displayed on each axis, and the canvas has the floor
\* of the region's width and height; natural 4000x3000 displayed 800x600
\* with crop {100,100,200,150} resolves to {500,500,1000,750}.
C2_ValidCropScaledAndFloored ==
    (Exporting /\ completedCrop.unit = "px" /\ ~CropAbsentOrEmpty) =>
        /\ Scaled(exp.sourceX, completedCrop.x, imgEl.naturalWidth, imgEl.width)
        /\ Scaled(exp.sourceY, completedCrop.y, imgEl.naturalHeight, imgEl.height)
        /\ Scaled(exp.sourceWidth, completedCrop.width, imgEl.naturalWidth, imgEl.width)
        /\ Scaled(exp.sourceHeight, completedCrop.height, imgEl.naturalHeight, imgEl.height)
        /\ IsFloorOf(exp.canvasWidth, exp.sourceWidth)
        /\ IsFloorOf(exp.canvasHeight, exp.sourceHeight)
        /\ ( /\ imgEl.naturalWidth = 4000 /\ imgEl.naturalHeight = 3000
             /\ imgEl.width = 800 /\ imgEl.height = 600
             /\ completedCrop = PxCrop(100, 100, 200, 150) )
           => /\ exp.sourceX = R(500) /\ exp.sourceY = R(500)
              /\ exp.sourceWidth = R(1000) /\ exp.sourceHeight = R(750)
              /\ exp.canvasWidth = 1000 /\ exp.canvasHeight = 750

C2_Witness ==
    /\ Exporting
    /\ completedCrop = PxCrop(10, 10, 3, 1)
    /\ exp.sourceWidth = <<3, 2>>
    /\ exp.canvasWidth = 1

\* C3: when the draw step of an export throws, the exception is caught and
\* logged as the failure signal, toBlob is never called, nothing is
\* downloaded, the export ends, and the editing state is untouched.
C3_DrawFailureIsContained ==
    [][ (exp.threw \/ exp'.threw) =>
          /\ exp'.threw => ( /\ exp'.caught /\ exp'.logged
                             /\ ~exp'.encoding /\ ~exp'.downloaded
                             /\ exp'.pc = "done" )
          /\ exp.threw => exp' = NoExport
          /\ UNCHANGED <<editing, imgEl, aspect>> ]_vars

C3_Witness ==
    exp.pc = "done" /\ exp.threw /\ exp.caught /\ imgEl.shown # NoImg

\* C4: an export whose canvas has width 0 or height 0 ends reported as a
\* failure, with nothing downloaded.
C4_ZeroSizedExportIsReported ==
    (exp.pc = "done" /\ (exp.canvasWidth = 0 \/ exp.canvasHeight = 0)) =>
        (exp.logged /\ ~exp.downloaded)

\* C5: the adjustments always hold the five parameters, each in its range:
\* brightness, contrast, saturation, vignette in [0,200], temperature in
\* [-100,100].
C5_AdjustmentsInRange ==
    /\ DOMAIN adj = AdjKeys
    /\ \A key \in AdjKeys \ {"temperature"} : adj[key] \in 0 .. 200
    /\ adj.temperature \in (-100) .. 100

\* C6: at most one background-removal call is in flight, and while one is
\* the busy flag is set.
C6_SingleFlight ==
    /\ Len(pending) <= 1
    /\ Len(pending) = 1 => isProcessing

C6_Witness ==
    Len(pending) = 1 /\ isProcessing /\ RemoveDisabled /\ imgSrc # pending[1]

\* C7: handling a failed background removal raises an alert and changes
\* neither the image, the adjustments, the crop nor the committed crop.
C7_RemovalFailureLeavesEditingState ==
    [][ alerts' # alerts =>
          (alerts' = alerts + 1 /\ UNCHANGED <<imgSrc, adj, crop, completedCrop>>) ]_vars

C7_Witness ==
    alerts > 0 /\ imgSrc # NoImg /\ completedCrop # NoCrop

\* C8: the filter drawn with lists brightness, contrast, saturate, sepia,
\* hue-rotate in this order; temperature t > 0 gives sepia t and hue-rotate
\* 0, t < 0 gives hue-rotate 1.5 t and sepia 0, t = 0 gives both 0.  The
\* preview's filter is the same.
C8_TemperatureDecomposition ==
    LET t == adj.temperature
        Decomposed(f) ==
            /\ Len(f) = 5
            /\ <<f[1].fn, f[2].fn, f[3].fn, f[4].fn, f[5].fn>> =
                 <<"brightness", "contrast", "saturate", "sepia", "hue-rotate">>
            /\ f[1].arg = <<adj.brightness, 1>>
            /\ f[2].arg = <<adj.contrast, 1>>
            /\ f[3].arg = <<adj.saturation, 1>>
            /\ t > 0 => (f[4].arg = <<t, 1>> /\ f[5].arg = <<0, 1>>)
            /\ t < 0 => (f[4].arg = <<0, 1>> /\ 2 * f[5].arg[1] = 3 * t * f[5].arg[2])
            /\ t = 0 => (f[4].arg = <<0, 1>> /\ f[5].arg = <<0, 1>>)
            /\ f[4].arg = <<0, 1>> \/ f[5].arg = <<0, 1>>
    IN  /\ exp.pc = "draw" => Decomposed(exp.filter)
        /\ Decomposed(PreviewFilter(adj))

C8_Witness ==
    exp.pc = "draw" /\ adj.temperature = -40 /\ exp.filter[5].arg = <<-60, 1>>

\* C9: whenever an export runs with a valid committed crop, that crop is in
\* displayed pixels.
C9_CommittedCropIsInPixels ==
    (Exporting /\ ~CropAbsentOrEmpty) => completedCrop.unit = "px"

\* C10: when a background removal resolves and the current image is no
\* longer the one it was invoked on, the current image stays.
C10_StaleRemovalKeepsNewerImage ==
    [][ \A i \in 1 .. Len(pending) :
          ( /\ pending' = Remove(pending, i)
            /\ alerts' = alerts
            /\ imgSrc # pending[i] ) => imgSrc' = imgSrc ]_vars

=============================================================================
